---- MODULE Spec2Model ----
(***************************************************************************)
(* geonix-landing: the contact form backend api/contact.ts (rate limiter,  *)
(* validation, ticket, two sequential mail sends), the diagnostic mail     *)
(* endpoint and the language preference provider LanguageContext.tsx.      *)
(*                                                                         *)
(* The specifications of the contact handler share its actions:            *)
(*   Spec         concurrent invocations of handler, one request per path; *)
(*   SpecLimiter  the rate limiter over time, two clients;                 *)
(*   SpecFields   one client, every combination of field values;           *)
(*   SpecBounds   one client, fields at and past their length limits and   *)
(*                fields that carry line breaks.                           *)
(* SpecDiag is the diagnostic endpoint under concurrent invocations and    *)
(* SpecLang the language provider with its storage.                        *)
(*                                                                         *)
(* Strings are sequences of one-character tokens.  The empty sequence      *)
(* stands for both the empty string and an absent (undefined) value: the   *)
(* code only ever tests such values for truthiness (x || "", !x, x && ..). *)
(***************************************************************************)
EXTENDS Integers, Sequences, FiniteSets, TLC

VARIABLES now, ticks, env, ipBucket, inv, fin, lastCheck, win,
          diagEnv, diagInv, diagFin,
          mounted, language, updates, effectDue, stored, htmlLang

contactVars == <<now, ticks, env, ipBucket, inv, fin, lastCheck, win>>
diagVars == <<diagEnv, diagInv, diagFin>>
langVars == <<mounted, language, updates, effectDue, stored, htmlLang>>
vars == <<contactVars, diagVars, langVars>>

\* ---------------------------------------------------------------- bounds
MaxTicks == 1
MaxTicksL == 3
MaxReq == 2
MaxUpdates == 3

\* ------------------------------------------------------- program constants
RATE_LIMIT_WINDOW_MS == 60000
RATE_LIMIT_MAX == 3

\* ---------------------------------------------------------------- strings
CR == "\r"
LF == "\n"
WS == {" ", "\t", CR, LF}

Rep(c, n) == [i \in 1..n |-> c]

RECURSIVE trimStart(_)
trimStart(s) == IF s # <<>> /\ Head(s) \in WS THEN trimStart(Tail(s)) ELSE s

RECURSIVE trimEnd(_)
trimEnd(s) ==
    IF s # <<>> /\ s[Len(s)] \in WS THEN trimEnd(SubSeq(s, 1, Len(s) - 1)) ELSE s

trim(s) == trimEnd(trimStart(s))

\* s.split(",")[0]
RECURSIVE splitFirst(_)
splitFirst(s) ==
    IF s = <<>> \/ Head(s) = "," THEN <<>> ELSE <<Head(s)>> \o splitFirst(Tail(s))

\* /^[^\s@]+@[^\s@]+\.[^\s@]+$/.test(email)
isValidEmail(email) ==
    LET plain(a, b) == \A k \in a..b : email[k] \notin (WS \cup {"@"})
    IN  \E i \in 2..Len(email) : \E j \in (i + 2)..(Len(email) - 1) :
            /\ email[i] = "@"
            /\ email[j] = "."
            /\ plain(1, i - 1)
            /\ plain(i + 1, j - 1)
            /\ plain(j + 1, Len(email))

\* s.replace(/[\r\n]+/g, " "): of each run of CR/LF only the first character
\* is kept, as one space.
collapseNewlines(s) ==
    LET marked == [i \in 1..Len(s) |->
                     [c |-> s[i], run |-> i > 1 /\ s[i - 1] \in {CR, LF}]]
        kept == SelectSeq(marked, LAMBDA m : ~(m.c \in {CR, LF} /\ m.run))
    IN  [i \in 1..Len(kept) |-> IF kept[i].c \in {CR, LF} THEN " " ELSE kept[i].c]

\* The header text trimmed only, its line breaks kept.
escapeHeaderText_TrimOnly(s) == trim(s)

escapeHeaderText(s) == trim(collapseNewlines(s))

\* ------------------------------------------------------------ rate limiter
\* rateLimit without "cur.count += 1".
rateLimit_NoIncrement(b, ip, t) ==
    IF ip \notin DOMAIN b \/ t > b[ip].resetAt
    THEN [ok |-> TRUE, retryAfterMs |-> 0,
          bucket |-> [k \in DOMAIN b \cup {ip} |->
                        IF k = ip
                        THEN [count |-> 1, resetAt |-> t + RATE_LIMIT_WINDOW_MS]
                        ELSE b[k]]]
    ELSE IF b[ip].count >= RATE_LIMIT_MAX
         THEN [ok |-> FALSE, retryAfterMs |-> b[ip].resetAt - t, bucket |-> b]
         ELSE [ok |-> TRUE, retryAfterMs |-> 0, bucket |-> b]

\* rateLimit without the "now > cur.resetAt" test.
rateLimit_NoExpiry(b, ip, t) ==
    IF ip \notin DOMAIN b
    THEN [ok |-> TRUE, retryAfterMs |-> 0,
          bucket |-> [k \in DOMAIN b \cup {ip} |->
                        IF k = ip
                        THEN [count |-> 1, resetAt |-> t + RATE_LIMIT_WINDOW_MS]
                        ELSE b[k]]]
    ELSE IF b[ip].count >= RATE_LIMIT_MAX
         THEN [ok |-> FALSE, retryAfterMs |-> b[ip].resetAt - t, bucket |-> b]
         ELSE [ok |-> TRUE, retryAfterMs |-> 0,
               bucket |-> [b EXCEPT ![ip].count = @ + 1]]

\* The limit tested with > instead of >=.
rateLimit_OffByOne(b, ip, t) ==
    IF ip \notin DOMAIN b \/ t > b[ip].resetAt
    THEN [ok |-> TRUE, retryAfterMs |-> 0,
          bucket |-> [k \in DOMAIN b \cup {ip} |->
                        IF k = ip
                        THEN [count |-> 1, resetAt |-> t + RATE_LIMIT_WINDOW_MS]
                        ELSE b[k]]]
    ELSE IF b[ip].count > RATE_LIMIT_MAX
         THEN [ok |-> FALSE, retryAfterMs |-> b[ip].resetAt - t, bucket |-> b]
         ELSE [ok |-> TRUE, retryAfterMs |-> 0,
               bucket |-> [b EXCEPT ![ip].count = @ + 1]]

\* A sliding window: a Denied check restarts the window.
rateLimit_Sliding(b, ip, t) ==
    IF ip \notin DOMAIN b \/ t > b[ip].resetAt
    THEN [ok |-> TRUE, retryAfterMs |-> 0,
          bucket |-> [k \in DOMAIN b \cup {ip} |->
                        IF k = ip
                        THEN [count |-> 1, resetAt |-> t + RATE_LIMIT_WINDOW_MS]
                        ELSE b[k]]]
    ELSE IF b[ip].count >= RATE_LIMIT_MAX
         THEN [ok |-> FALSE, retryAfterMs |-> b[ip].resetAt - t,
               bucket |-> [b EXCEPT ![ip].resetAt = t + RATE_LIMIT_WINDOW_MS]]
         ELSE [ok |-> TRUE, retryAfterMs |-> 0,
               bucket |-> [b EXCEPT ![ip].count = @ + 1]]

\* A new window made by replacing the whole table.
rateLimit_ResetAll(b, ip, t) ==
    IF ip \notin DOMAIN b \/ t > b[ip].resetAt
    THEN [ok |-> TRUE, retryAfterMs |-> 0,
          bucket |-> [k \in {ip} |-> [count |-> 1, resetAt |-> t + RATE_LIMIT_WINDOW_MS]]]
    ELSE IF b[ip].count >= RATE_LIMIT_MAX
         THEN [ok |-> FALSE, retryAfterMs |-> b[ip].resetAt - t, bucket |-> b]
         ELSE [ok |-> TRUE, retryAfterMs |-> 0,
               bucket |-> [b EXCEPT ![ip].count = @ + 1]]

\* rateLimit(ip) at time t on table b: the result and the table afterwards.
rateLimit(b, ip, t) ==
    IF ip \notin DOMAIN b \/ t > b[ip].resetAt
    THEN [ok |-> TRUE, retryAfterMs |-> 0,
          bucket |-> [k \in DOMAIN b \cup {ip} |->
                        IF k = ip
                        THEN [count |-> 1, resetAt |-> t + RATE_LIMIT_WINDOW_MS]
                        ELSE b[k]]]
    ELSE IF b[ip].count >= RATE_LIMIT_MAX
         THEN [ok |-> FALSE, retryAfterMs |-> b[ip].resetAt - t, bucket |-> b]
         ELSE [ok |-> TRUE, retryAfterMs |-> 0,
               bucket |-> [b EXCEPT ![ip].count = @ + 1]]

\* ------------------------------------------------------------- data shapes
NoTicket == [prefix |-> "", date |-> 0, rand |-> ""]

\* makeTicket(prefix): `${prefix}-${YYYYMMDD}-${rand}`; the date part is the
\* calendar day of the clock, the random part is chosen by the caller.
MS_PER_DAY == 86400000
makeTicket(prefix, t, rand) == [prefix |-> prefix, date |-> t \div MS_PER_DAY, rand |-> rand]

\* res.status(s).json({ ok, error?, ticket? }) and the Retry-After header
\* (retryAfter = -1: header not set).
Response(status, ok, error, ticket, retryAfter) ==
    [status |-> status, ok |-> ok, error |-> error, ticket |-> ticket,
     retryAfter |-> retryAfter]

EmptyObj == [hp |-> <<>>, name |-> <<>>, email |-> <<>>, message |-> <<>>,
             company |-> <<>>, website |-> <<>>, phone |-> <<>>]

NoSub == [name |-> <<>>, email |-> <<>>, message |-> <<>>, company |-> <<>>,
          website |-> <<>>, phone |-> <<>>, user |-> <<>>, to |-> <<>>,
          ticket |-> NoTicket]

NoCheck == [made |-> FALSE, key |-> <<>>, ok |-> FALSE, retryAfterMs |-> 0]

NoReq == [method |-> "", xff |-> <<>>, remote |-> [has |-> FALSE, v |-> <<>>],
          body |-> [kind |-> "none", obj |-> EmptyObj]]

\* One invocation of handler: its request, where it stands (pc), what it has
\* responded and sent so far, the tickets it generated, the stages it passed
\* and the locals that stay live across the awaits (sub).
NewRun(req) ==
    [in |-> req, pc |-> "run", responses |-> <<>>, sends |-> <<>>,
     tickets |-> <<>>, stages |-> <<>>, sub |-> NoSub, rl |-> NoCheck]

IdleRun == [NewRun(NoReq) EXCEPT !.pc = "idle"]
NoRun == [NewRun(NoReq) EXCEPT !.pc = "none"]

respond(run, resp) == [run EXCEPT !.responses = Append(@, resp), !.pc = "done"]
passed(run, stage) == [run EXCEPT !.stages = Append(@, stage)]

\* ------------------------------------------------------------ handler parts
\* Only GET refused.
methodNotAllowed_GetOnly(req) == req.method = "GET"

\* req.method !== "POST"
methodNotAllowed(req) == req.method # "POST"

\* A body JSON.parse rejects read as an empty object.
parseBody_Lenient(body) ==
    CASE body.kind \in {"badjson", "none"} -> [ok |-> TRUE, obj |-> EmptyObj]
      [] OTHER                            -> [ok |-> TRUE, obj |-> body.obj]

\* typeof req.body === "string" ? JSON.parse(req.body) : req.body
\* (ok = FALSE: JSON.parse throws; an undefined body reads as all-absent).
parseBody(body) ==
    CASE body.kind = "badjson" -> [ok |-> FALSE, obj |-> EmptyObj]
      [] body.kind = "none"    -> [ok |-> TRUE, obj |-> EmptyObj]
      [] OTHER                 -> [ok |-> TRUE, obj |-> body.obj]

\* The comparison inverted: String(body.hp).trim() === "".
isHoneypot_Inverted(obj) == obj.hp # <<>> /\ trim(obj.hp) = <<>>

\* body?.hp && String(body.hp).trim() !== ""
isHoneypot(obj) == obj.hp # <<>> /\ trim(obj.hp) # <<>>

\* x-forwarded-for first item, trimmed, || (remoteAddress ?? "unknown")
UNKNOWN == <<"unknown">>
clientIp(req) ==
    LET first == trim(splitFirst(req.xff))
    IN  IF req.xff # <<>> /\ first # <<>> THEN first
        ELSE IF req.remote.has THEN req.remote.v ELSE UNKNOWN

\* String(body?.f || "").trim() for the six fields
trimmedFields(obj) ==
    [name |-> trim(obj.name), email |-> trim(obj.email),
     message |-> trim(obj.message), company |-> trim(obj.company),
     website |-> trim(obj.website), phone |-> trim(obj.phone)]

MAX_NAME == 80
MAX_COMPANY == 120
MAX_WEBSITE == 200
MAX_PHONE == 80
MAX_MESSAGE == 5000

\* The email format tested before the presence of the fields.
validate_EmailFirst(f) ==
    IF ~isValidEmail(f.email) THEN "invalid_email"
    ELSE IF f.name = <<>> \/ f.email = <<>> \/ f.message = <<>> THEN "missing_fields"
    ELSE IF \/ Len(f.name) > MAX_NAME \/ Len(f.company) > MAX_COMPANY
            \/ Len(f.website) > MAX_WEBSITE \/ Len(f.phone) > MAX_PHONE
         THEN "field_too_long"
    ELSE IF Len(f.message) > MAX_MESSAGE THEN "message_too_long"
    ELSE ""

\* The length tests written with >= instead of >.
validate_Exclusive(f) ==
    IF f.name = <<>> \/ f.email = <<>> \/ f.message = <<>> THEN "missing_fields"
    ELSE IF ~isValidEmail(f.email) THEN "invalid_email"
    ELSE IF \/ Len(f.name) >= MAX_NAME \/ Len(f.company) >= MAX_COMPANY
            \/ Len(f.website) >= MAX_WEBSITE \/ Len(f.phone) >= MAX_PHONE
         THEN "field_too_long"
    ELSE IF Len(f.message) >= MAX_MESSAGE THEN "message_too_long"
    ELSE ""

\* The four validation ifs, in order; "" when all pass.
validate(f) ==
    IF f.name = <<>> \/ f.email = <<>> \/ f.message = <<>> THEN "missing_fields"
    ELSE IF ~isValidEmail(f.email) THEN "invalid_email"
    ELSE IF \/ Len(f.name) > MAX_NAME \/ Len(f.company) > MAX_COMPANY
            \/ Len(f.website) > MAX_WEBSITE \/ Len(f.phone) > MAX_PHONE
         THEN "field_too_long"
    ELSE IF Len(f.message) > MAX_MESSAGE THEN "message_too_long"
    ELSE ""

\* The test without "|| !to".
configMissing_NoTo(e) ==
    e.MAIL_HOST = <<>> \/ e.MAIL_USER = <<>> \/ e.MAIL_PASS = <<>>

\* !host || !user || !pass || !to
configMissing(e) ==
    e.MAIL_HOST = <<>> \/ e.MAIL_USER = <<>> \/ e.MAIL_PASS = <<>> \/ e.MAIL_TO = <<>>

\* A line of a mail text: a fixed label, a value and possibly the ticket.
Line(label, value, ticket) == [label |-> label, value |-> value, ticket |-> ticket]
BlankLine == Line("", <<>>, NoTicket)
\* .filter(Boolean) drops the empty strings
filterBoolean(lines) == SelectSeq(lines, LAMBDA l : l # BlankLine)

SUMMARY_LEN == 220
summaryOf(message) ==
    IF Len(message) > SUMMARY_LEN
    THEN SubSeq(message, 1, SUMMARY_LEN) \o <<"...">>
    ELSE message

adminMail(s) ==
    [kind |-> "admin",
     from |-> <<"\"Website Contact\" <">> \o s.user \o <<">">>,
     to |-> s.to,
     replyTo |-> s.email,
     subject |-> <<"[GEONIX web inquiry] ">> \o escapeHeaderText(s.name)
                 \o <<" (">> \o escapeHeaderText(s.email) \o <<")">>,
     subjectTicket |-> NoTicket,
     text |-> filterBoolean(<<
        Line("[ticket] ", <<>>, s.ticket),
        BlankLine,
        Line("Name: ", s.name, NoTicket),
        Line("Email: ", s.email, NoTicket),
        IF s.company # <<>> THEN Line("Company: ", s.company, NoTicket) ELSE BlankLine,
        IF s.phone # <<>> THEN Line("Phone: ", s.phone, NoTicket) ELSE BlankLine,
        IF s.website # <<>> THEN Line("Website: ", s.website, NoTicket) ELSE BlankLine,
        BlankLine,
        Line("Message:", <<>>, NoTicket),
        Line("", s.message, NoTicket) >>)]

\* The acknowledgement composed with a ticket of its own.
ackMail_NewTicket(s) ==
    [kind |-> "ack",
     from |-> <<"\"GEONIX\" <">> \o s.user \o <<">">>,
     to |-> s.email,
     replyTo |-> s.to,
     subject |-> <<"received (Ticket: ">>,
     subjectTicket |-> makeTicket("GEONIX", 0, "000000"),
     text |-> << Line("- Ticket: ", <<>>, makeTicket("GEONIX", 0, "000000")) >>]

ackMail(s) ==
    LET half(hello, tk) == <<
            Line(hello, s.name, NoTicket),
            Line("received", <<>>, NoTicket),
            BlankLine,
            Line(tk, <<>>, s.ticket),
            Line("- Company: ", IF s.company # <<>> THEN s.company ELSE <<"-">>, NoTicket),
            Line("- Phone: ", IF s.phone # <<>> THEN s.phone ELSE <<"-">>, NoTicket),
            Line("- Message (summary): ", summaryOf(s.message), NoTicket),
            BlankLine,
            Line("thanks", <<>>, NoTicket) >>
    IN  [kind |-> "ack",
         from |-> <<"\"GEONIX\" <">> \o s.user \o <<">">>,
         to |-> s.email,
         replyTo |-> s.to,
         subject |-> <<"received (Ticket: ">>,
         subjectTicket |-> s.ticket,
         text |-> half("ko hello ", "- ko ticket: ") \o
                  << BlankLine, Line("------------------------------", <<>>, NoTicket),
                     BlankLine >> \o
                  half("Hello ", "- Ticket: ")]

\* ------------------------------------------------------------------ handler
\* A catch block that logs and does not respond.
catchError_Silent(run) == [run EXCEPT !.pc = "done"]

\* catch (e) { return res.status(500).json({ ok: false, error: "send_failed" }) }
catchError(run) == respond(run, Response(500, FALSE, "send_failed", NoTicket, -1))

\* Math.ceil(ms / 1000)
ceilSeconds(ms) == (ms + 999) \div 1000

\* handler from its entry to its first await (or to its response when it
\* returns before): the invocation record and the rate-limit table afterwards.
handler(req, e, b, t, rand) ==
    LET r0 == NewRun(req)
        body == parseBody(req.body)
        ip == clientIp(req)
        rl == rateLimit(b, ip, t)
        f == trimmedFields(body.obj)
        reason == validate(f)
        ticket == makeTicket("GEONIX", t, rand)
        sub == [name |-> f.name, email |-> f.email, message |-> f.message,
                company |-> f.company, website |-> f.website, phone |-> f.phone,
                user |-> e.MAIL_USER, to |-> e.MAIL_TO, ticket |-> ticket]
        r1 == passed(r0, "MethodChecked")
        r2 == passed(r1, "BodyParsed")
        r3 == [passed(r2, "HoneypotChecked") EXCEPT
                  !.rl = [made |-> TRUE, key |-> ip, ok |-> rl.ok,
                          retryAfterMs |-> rl.retryAfterMs]]
        r4 == passed(r3, "RateLimited")
        r5 == passed(r4, "Validated")
        r6 == passed(r5, "ConfigChecked")
        r7 == [passed(r6, "TicketGenerated") EXCEPT
                  !.tickets = Append(@, ticket),
                  !.sub = sub,
                  !.sends = Append(@, [msg |-> adminMail(sub), result |-> "pending"]),
                  !.pc = "awaitAdmin"]
    IN  IF methodNotAllowed(req)
        THEN [run |-> respond(r0, Response(405, FALSE, "method_not_allowed", NoTicket, -1)),
              bucket |-> b]
        ELSE IF ~body.ok
        THEN [run |-> catchError(r1), bucket |-> b]
        ELSE IF isHoneypot(body.obj)
        THEN [run |-> respond(r2, Response(200, TRUE, "", NoTicket, -1)), bucket |-> b]
        ELSE IF ~rl.ok
        THEN [run |-> respond(r3, Response(429, FALSE, "rate_limited", NoTicket,
                                           ceilSeconds(rl.retryAfterMs))),
              bucket |-> rl.bucket]
        ELSE IF reason # ""
        THEN [run |-> respond(r4, Response(400, FALSE, reason, NoTicket, -1)),
              bucket |-> rl.bucket]
        ELSE IF configMissing(e)
        THEN [run |-> respond(r5, Response(500, FALSE, "server_not_configured", NoTicket, -1)),
              bucket |-> rl.bucket]
        ELSE [run |-> r7, bucket |-> rl.bucket]

\* The relay settles the send the invocation is waiting for.
settle(run, ok) ==
    [run EXCEPT !.sends[Len(run.sends)].result = IF ok THEN "ok" ELSE "fail"]

\* The two sends started without waiting for the first one's outcome.
afterAdminSend_NoWait(run, ok) ==
    [passed(run, "AdminNotified") EXCEPT
        !.sends = Append(@, [msg |-> ackMail(run.sub), result |-> "pending"]),
        !.pc = "awaitAck"]

\* handler from the first await to the second: a rejected send throws into
\* the catch, a fulfilled one goes on to the acknowledgement.
afterAdminSend(run, ok) ==
    IF ~ok THEN catchError(run)
    ELSE [passed(run, "AdminNotified") EXCEPT
             !.sends = Append(@, [msg |-> ackMail(run.sub), result |-> "pending"]),
             !.pc = "awaitAck"]

\* A failed acknowledgement swallowed (.catch(() => {})).
afterAckSend_Swallow(run, ok) ==
    respond(passed(run, "UserNotified"), Response(200, TRUE, "", run.sub.ticket, -1))

\* handler from the second await to its end.
afterAckSend(run, ok) ==
    IF ~ok THEN catchError(run)
    ELSE respond(passed(run, "UserNotified"),
                 Response(200, TRUE, "", run.sub.ticket, -1))

\* ------------------------------------------------------------------ inputs
Reqs == 1..MaxReq
Rands == {"7F3KQ9", "I"}
TickSteps == {1, RATE_LIMIT_WINDOW_MS}

FullEnv == [MAIL_HOST |-> <<"h">>, MAIL_USER |-> <<"u">>, MAIL_PASS |-> <<"p">>,
            MAIL_TO |-> <<"t">>]
Envs == {FullEnv,
         [FullEnv EXCEPT !.MAIL_HOST = <<>>], [FullEnv EXCEPT !.MAIL_USER = <<>>],
         [FullEnv EXCEPT !.MAIL_PASS = <<>>], [FullEnv EXCEPT !.MAIL_TO = <<>>]}

GoodEmail == <<"a", "@", "b", ".", "c">>
Obj(hp, name, email, message) ==
    [EmptyObj EXCEPT !.hp = hp, !.name = name, !.email = email, !.message = message]
Req(method, xff, body) ==
    [method |-> method, xff |-> xff, remote |-> [has |-> FALSE, v |-> <<>>],
     body |-> body]
Parsed(o) == [kind |-> "object", obj |-> o]

\* Requests of the flow specification: one per path of handler (the
\* message_too_long return is exercised by the fields specification).
XffA == <<" ", "a", ",", "b">>
ValidObj == Obj(<<>>, <<"n">>, GoodEmail, <<"m">>)
FlowInputs ==
    { Req("GET", XffA, Parsed(ValidObj)),
      Req("POST", XffA, [kind |-> "badjson", obj |-> EmptyObj]),
      Req("POST", XffA, Parsed(Obj(<<"x">>, <<"n">>, GoodEmail, <<"m">>))),
      Req("POST", XffA, Parsed(Obj(<<>>, <<>>, GoodEmail, <<"m">>))),
      Req("POST", XffA, Parsed(Obj(<<>>, <<"n">>, <<"e">>, <<"m">>))),
      Req("POST", XffA, Parsed(Obj(<<>>, Rep("n", MAX_NAME + 1), GoodEmail, <<"m">>))),
      Req("POST", XffA, Parsed(ValidObj)) }

\* Requests of the limiter specification: two clients, a counted and an
\* uncounted path each.
LimiterInputs ==
    { Req("POST", x, Parsed(Obj(hp, <<"n">>, GoodEmail, <<"m">>))) :
        x \in {XffA, <<>>}, hp \in {<<>>, <<"x">>} }

\* Requests of the fields specification: every combination of absent,
\* blank, good and oversized field values, from one client.
FieldObjs ==
    { [EmptyObj EXCEPT !.hp = hp, !.name = name, !.email = email,
                       !.message = message, !.company = company] :
        hp \in {<<>>, <<" ">>, <<" ", "x">>},
        name \in {<<>>, <<"n", " ">>, Rep("n", MAX_NAME + 1)},
        email \in {<<>>, <<"e">>, GoodEmail},
        message \in {<<" ">>, <<"m">>, Rep("m", MAX_MESSAGE + 1)},
        company \in {<<>>, Rep("c", MAX_COMPANY + 1)} }
FieldInputs ==
    { Req("POST", XffA, Parsed(o)) : o \in FieldObjs }
    \cup { Req("GET", XffA, Parsed(ValidObj)),
           Req("GET", XffA, [kind |-> "badjson", obj |-> EmptyObj]),
           Req("OPTIONS", XffA, Parsed(ValidObj)),
           Req("POST", XffA, [kind |-> "badjson", obj |-> EmptyObj]),
           Req("POST", XffA, [kind |-> "none", obj |-> EmptyObj]),
           Req("POST", XffA, [kind |-> "json", obj |-> ValidObj]) }

\* Requests of the bounds specification: a valid submission with one field
\* at its limit (padded with blanks the trim removes) or one past it.
Padded(c, n) == <<" ">> \o Rep(c, n) \o <<" ", LF>>
BoundObjs ==
    { [ValidObj EXCEPT !.name = v] : v \in {Padded("n", MAX_NAME), Rep("n", MAX_NAME + 1)} }
    \cup { [ValidObj EXCEPT !.company = v] :
              v \in {Padded("c", MAX_COMPANY), Rep("c", MAX_COMPANY + 1)} }
    \cup { [ValidObj EXCEPT !.website = v] :
              v \in {Padded("w", MAX_WEBSITE), Rep("w", MAX_WEBSITE + 1)} }
    \cup { [ValidObj EXCEPT !.phone = v] :
              v \in {Padded("0", MAX_PHONE), Rep("0", MAX_PHONE + 1)} }
    \cup { [ValidObj EXCEPT !.message = v] :
              v \in {Padded("m", MAX_MESSAGE), Rep("m", MAX_MESSAGE + 1)} }
BoundInputs == { Req("POST", XffA, Parsed(o)) : o \in BoundObjs \cup {ValidObj} }

\* Submissions that carry line breaks in the header-bound fields: inside the
\* name, around the name, after the email (trimmed away) and inside the email.
BreakName == <<"a", CR, LF, "b", LF, "c">>
InjectionObjs ==
    { [ValidObj EXCEPT !.name = name, !.email = email] :
        name \in {BreakName, <<LF, "a", CR>>},
        email \in {GoodEmail \o <<CR, LF>>,
                   <<"a", LF, "@", "b", ".", "c">>,
                   GoodEmail \o <<CR, LF, "d">>} }
InjectionInputs == { Req("POST", XffA, Parsed(o)) : o \in InjectionObjs }

\* ------------------------------------------------- the diagnostic endpoint
\* process.env as the diagnostic handler reads it.
DiagNames == {"MAIL_HOST", "MAIL_PORT", "MAIL_USER", "MAIL_PASS", "MAIL_TO"}
FullDiagEnv == [MAIL_HOST |-> <<"h">>, MAIL_PORT |-> <<"4", "6", "5">>,
                MAIL_USER |-> <<"u">>, MAIL_PASS |-> <<"p">>, MAIL_TO |-> <<"t">>]
DiagEnvs ==
    { [v \in DiagNames |-> IF v \in S THEN <<>> ELSE FullDiagEnv[v]] : S \in SUBSET DiagNames }
MessageIds == {"<m1>", "<m2>"}
DiagMethods == {"POST", "GET"}

\* const missing = { MAIL_HOST: !MAIL_HOST, ... }
diagMissing(e) ==
    [MAIL_HOST |-> e.MAIL_HOST = <<>>, MAIL_PORT |-> e.MAIL_PORT = <<>>,
     MAIL_USER |-> e.MAIL_USER = <<>>, MAIL_PASS |-> e.MAIL_PASS = <<>>]
anyMissing(e) ==
    diagMissing(e).MAIL_HOST \/ diagMissing(e).MAIL_PORT \/ diagMissing(e).MAIL_USER \/ diagMissing(e).MAIL_PASS

NoMissing == [MAIL_HOST |-> FALSE, MAIL_PORT |-> FALSE, MAIL_USER |-> FALSE,
              MAIL_PASS |-> FALSE]
DiagResponse(status, ok, error, messageId, miss) ==
    [status |-> status, ok |-> ok, error |-> error, messageId |-> messageId,
     missing |-> miss]
NewDiagRun(method) ==
    [method |-> method, pc |-> "start", verify |-> "none", sends |-> <<>>,
     responses |-> <<>>]
DiagIdleRun == [NewDiagRun("") EXCEPT !.pc = "idle"]
NoDiagRun == [NewDiagRun("") EXCEPT !.pc = "none"]
diagRespond(run, resp) == [run EXCEPT !.responses = Append(@, resp), !.pc = "done"]

\* catch (e) { return res.status(500).json({ ok: false, error: ... }) }
diagCatch(run, error) == diagRespond(run, DiagResponse(500, FALSE, error, "", NoMissing))

\* The diagnostic handler from its entry to await transporter.verify().
diagHandler(method, e) ==
    LET r0 == NewDiagRun(method)
    IN  IF method # "POST"
        THEN diagRespond(r0, DiagResponse(405, FALSE, "Method Not Allowed", "", NoMissing))
        ELSE IF anyMissing(e)
        THEN diagRespond(r0, DiagResponse(500, FALSE, "Missing env vars", "", diagMissing(e)))
        ELSE [r0 EXCEPT !.pc = "awaitVerify", !.verify = "pending"]

\* MAIL_TO || MAIL_USER
diagTo(e) == IF e.MAIL_TO # <<>> THEN e.MAIL_TO ELSE e.MAIL_USER

\* The test message sent whatever verify() answered.
diagAfterVerify_Unchecked(run, e, ok) ==
    [run EXCEPT !.verify = IF ok THEN "ok" ELSE "fail",
                !.sends = Append(@, [from |-> e.MAIL_USER, to |-> diagTo(e),
                                     result |-> "pending", messageId |-> ""]),
                !.pc = "awaitSend"]

\* From the answer of verify() to await transporter.sendMail(...): a
\* rejected verify throws into the catch.
diagAfterVerify(run, e, ok) ==
    IF ~ok THEN diagCatch([run EXCEPT !.verify = "fail"], "verify failed")
    ELSE [run EXCEPT !.verify = "ok",
                     !.sends = Append(@, [from |-> e.MAIL_USER, to |-> diagTo(e),
                                          result |-> "pending", messageId |-> ""]),
                     !.pc = "awaitSend"]

\* From the answer of sendMail to the response.
diagAfterSend(run, ok, id) ==
    IF ~ok THEN diagCatch([run EXCEPT !.sends[1].result = "fail"], "send failed")
    ELSE diagRespond([run EXCEPT !.sends[1].result = "ok", !.sends[1].messageId = id],
                     DiagResponse(200, TRUE, "", id, NoMissing))

DiagIdle ==
    /\ diagEnv = FullDiagEnv
    /\ diagInv = [r \in Reqs |-> DiagIdleRun]
    /\ diagFin = NoDiagRun

\* ------------------------------------------------ the language preference
\* localStorage.getItem(STORAGE_KEY): null (NoItem) or the string stored.
NoItem == "null"
StoredValues == {NoItem, "ko", "en", "fr"}
Languages == {"ko", "en"}

\* (saved === 'en' || saved === 'ko') ? saved : 'ko'
initialLanguage(saved) == IF saved = "en" \/ saved = "ko" THEN saved ELSE "ko"

\* The updater that always answers 'en'.
toggleLanguage_OneWay(prev) == "en"

\* (prev) => (prev === 'ko' ? 'en' : 'ko')
toggleLanguage(prev) == IF prev = "ko" THEN "en" ELSE "ko"

\* The updates queued by setLanguage(lang) and toggleLanguage(), applied in
\* the order they were queued when the provider renders.
SetUpdate(lang) == [kind |-> "set", lang |-> lang]
ToggleUpdate == [kind |-> "toggle", lang |-> ""]
applyUpdate(prev, u) == IF u.kind = "set" THEN u.lang ELSE toggleLanguage(prev)
RECURSIVE applyUpdates(_, _)
applyUpdates(prev, q) ==
    IF q = <<>> THEN prev ELSE applyUpdates(applyUpdate(prev, Head(q)), Tail(q))

\* document.documentElement.lang = language === 'ko' ? 'ko' : 'en'
htmlLangOf(lang) == IF lang = "ko" THEN "ko" ELSE "en"

LangIdle(Saved) ==
    /\ mounted = FALSE
    /\ language = ""
    /\ updates = <<>>
    /\ effectDue = FALSE
    /\ stored \in Saved
    /\ htmlLang = ""

\* --------------------------------------------------------- observation state
\* win[k]: the window of key k as the clock alone defines it: it opens at the
\* first check of k, or at the first check later than start + WINDOW; n counts
\* the checks made in it (MaxNth stands for "that many or more"), allowed the
\* checks that returned ok.
\* lastCheck: the rateLimit call made by the latest step, if it made one.
\* fin: the invocation that ended in the latest step, if one did.
MaxNth == 4
NoLastCheck == [made |-> FALSE, key |-> <<>>, ok |-> FALSE, retryAfterMs |-> 0,
                expired |-> FALSE, before |-> 0]

winAfter(w, k, t, ok) ==
    LET fresh == k \notin DOMAIN w \/ t > w[k].start + RATE_LIMIT_WINDOW_MS
        one == IF ok THEN 1 ELSE 0
        nw == IF fresh THEN [start |-> t, n |-> 1, allowed |-> one]
              ELSE [start |-> w[k].start,
                    n |-> IF w[k].n < MaxNth THEN w[k].n + 1 ELSE MaxNth,
                    allowed |-> w[k].allowed + one]
    IN  [x \in DOMAIN w \cup {k} |-> IF x = k THEN nw ELSE w[x]]

\* ------------------------------------------------------------------ actions
Finish(r, run) ==
    IF run.pc = "done"
    THEN /\ fin' = run
         /\ inv' = [inv EXCEPT ![r] = IdleRun]
    ELSE /\ fin' = NoRun
         /\ inv' = [inv EXCEPT ![r] = run]

\* A request arrives and handler runs up to its first await or its return.
StartWith(r, Inputs, RandSet) ==
    /\ inv[r].pc = "idle"
    /\ \E req \in Inputs, rand \in RandSet :
          LET h == handler(req, env, ipBucket, now, rand)
              c == h.run.rl
          IN  /\ ipBucket' = h.bucket
              /\ Finish(r, h.run)
              /\ IF c.made
                 THEN /\ win' = winAfter(win, c.key, now, c.ok)
                      /\ lastCheck' =
                            [made |-> TRUE, key |-> c.key, ok |-> c.ok,
                             retryAfterMs |-> c.retryAfterMs,
                             expired |-> c.key \in DOMAIN ipBucket
                                         /\ now > ipBucket[c.key].resetAt,
                             before |-> IF c.key \in DOMAIN ipBucket
                                        THEN ipBucket[c.key].count ELSE 0]
                 ELSE /\ win' = win
                      /\ lastCheck' = NoLastCheck
    /\ UNCHANGED <<now, ticks, env>>
    /\ UNCHANGED <<diagVars, langVars>>

\* The relay answers the admin notification send of invocation r.
AdminSendDone(r) ==
    /\ inv[r].pc = "awaitAdmin"
    /\ \E ok \in BOOLEAN : Finish(r, afterAdminSend(settle(inv[r], ok), ok))
    /\ lastCheck' = NoLastCheck
    /\ UNCHANGED <<now, ticks, env, ipBucket, win>>
    /\ UNCHANGED <<diagVars, langVars>>

\* The relay answers the acknowledgement send of invocation r.
AckSendDone(r) ==
    /\ inv[r].pc = "awaitAck"
    /\ \E ok \in BOOLEAN : Finish(r, afterAckSend(settle(inv[r], ok), ok))
    /\ lastCheck' = NoLastCheck
    /\ UNCHANGED <<now, ticks, env, ipBucket, win>>
    /\ UNCHANGED <<diagVars, langVars>>

\* Date.now() advances.
TickWith(maxTicks, Steps) ==
    /\ ticks < maxTicks
    /\ \E d \in Steps : now' = now + d
    /\ ticks' = ticks + 1
    /\ fin' = NoRun
    /\ lastCheck' = NoLastCheck
    /\ UNCHANGED <<env, ipBucket, inv, win>>
    /\ UNCHANGED <<diagVars, langVars>>

ContactIdle(EnvSet) ==
    /\ now = 0
    /\ ticks = 0
    /\ env \in EnvSet
    /\ ipBucket = <<>>
    /\ inv = [r \in Reqs |-> IdleRun]
    /\ fin = NoRun
    /\ lastCheck = NoLastCheck
    /\ win = <<>>

InitWith(EnvSet) ==
    /\ ContactIdle(EnvSet)
    /\ DiagIdle
    /\ LangIdle({NoItem})

\* ---- the handler under concurrent invocations
Start(r) == StartWith(r, FlowInputs, Rands)
Tick == TickWith(MaxTicks, {RATE_LIMIT_WINDOW_MS + 1})
Init == InitWith(Envs)

Next ==
    \/ \E r \in Reqs : Start(r)
    \/ \E r \in Reqs : AdminSendDone(r)
    \/ \E r \in Reqs : AckSendDone(r)
    \/ Tick

Spec == Init /\ [][Next]_vars

\* ---- the rate limiter over time, one invocation at a time
StartL == StartWith(1, LimiterInputs, {"7F3KQ9"})
AdminSendDoneL == AdminSendDone(1)
AckSendDoneL == AckSendDone(1)
TickL == TickWith(MaxTicksL, TickSteps)
InitL == InitWith({FullEnv})

NextL == StartL \/ AdminSendDoneL \/ AckSendDoneL \/ TickL

SpecLimiter == InitL /\ [][NextL]_vars

\* ---- one client, every combination of field values
StartF == StartWith(1, FieldInputs, {"7F3KQ9"})
AdminSendDoneF == AdminSendDone(1)
AckSendDoneF == AckSendDone(1)
InitF == InitWith({FullEnv})

NextF == StartF \/ AdminSendDoneF \/ AckSendDoneF

SpecFields == InitF /\ [][NextF]_vars

\* ---- one client, each field at and past its length limit
StartB == StartWith(1, BoundInputs \cup InjectionInputs, {"7F3KQ9"})
AdminSendDoneB == AdminSendDone(1)
AckSendDoneB == AckSendDone(1)
TickB == TickWith(MaxTicks, {RATE_LIMIT_WINDOW_MS + 1})
InitB == InitWith({FullEnv})

NextB == StartB \/ AdminSendDoneB \/ AckSendDoneB \/ TickB

SpecBounds == InitB /\ [][NextB]_vars

\* ---- the diagnostic endpoint under concurrent invocations
DiagFinish(r, run) ==
    IF run.pc = "done"
    THEN /\ diagFin' = run
         /\ diagInv' = [diagInv EXCEPT ![r] = DiagIdleRun]
    ELSE /\ diagFin' = NoDiagRun
         /\ diagInv' = [diagInv EXCEPT ![r] = run]

DiagStart(r) ==
    /\ diagInv[r].pc = "idle"
    /\ \E method \in DiagMethods : DiagFinish(r, diagHandler(method, diagEnv))
    /\ UNCHANGED <<diagEnv, contactVars, langVars>>

DiagVerifyDone(r) ==
    /\ diagInv[r].pc = "awaitVerify"
    /\ \E ok \in BOOLEAN : DiagFinish(r, diagAfterVerify(diagInv[r], diagEnv, ok))
    /\ UNCHANGED <<diagEnv, contactVars, langVars>>

DiagSendDone(r) ==
    /\ diagInv[r].pc = "awaitSend"
    /\ \E ok \in BOOLEAN, id \in MessageIds : DiagFinish(r, diagAfterSend(diagInv[r], ok, id))
    /\ UNCHANGED <<diagEnv, contactVars, langVars>>

InitD ==
    /\ ContactIdle({FullEnv})
    /\ diagEnv \in DiagEnvs
    /\ diagInv = [r \in Reqs |-> DiagIdleRun]
    /\ diagFin = NoDiagRun
    /\ LangIdle({NoItem})

NextD ==
    \/ \E r \in Reqs : DiagStart(r)
    \/ \E r \in Reqs : DiagVerifyDone(r)
    \/ \E r \in Reqs : DiagSendDone(r)

SpecDiag == InitD /\ [][NextD]_vars

\* ---- the language provider
\* The provider mounts: the useState initializer reads the stored value; the
\* effect is due after the first commit.
Mount ==
    /\ ~mounted
    /\ mounted' = TRUE
    /\ language' = initialLanguage(stored)
    /\ updates' = <<>>
    /\ effectDue' = TRUE
    /\ UNCHANGED <<stored, htmlLang, contactVars, diagVars>>

\* A consumer calls setLanguage(lang): the update is queued.
SetLanguage ==
    /\ mounted /\ Len(updates) < MaxUpdates
    /\ \E lang \in Languages : updates' = Append(updates, SetUpdate(lang))
    /\ UNCHANGED <<mounted, language, effectDue, stored, htmlLang, contactVars, diagVars>>

\* A consumer calls toggleLanguage(): the updater is queued.
ToggleLanguage ==
    /\ mounted /\ Len(updates) < MaxUpdates
    /\ updates' = Append(updates, ToggleUpdate)
    /\ UNCHANGED <<mounted, language, effectDue, stored, htmlLang, contactVars, diagVars>>

\* The provider renders: an effect still due from the previous commit runs
\* first, the queued updates are applied, and the effect is due again when
\* language changed.
Render ==
    /\ mounted /\ updates # <<>>
    /\ language' = applyUpdates(language, updates)
    /\ updates' = <<>>
    /\ stored' = IF effectDue THEN language ELSE stored
    /\ htmlLang' = IF effectDue THEN htmlLangOf(language) ELSE htmlLang
    /\ effectDue' = (language' # language)
    /\ UNCHANGED <<mounted, contactVars, diagVars>>

\* useEffect(() => { localStorage.setItem(...); document...lang = ... }, [language])
Effect ==
    /\ mounted /\ effectDue
    /\ stored' = language
    /\ htmlLang' = htmlLangOf(language)
    /\ effectDue' = FALSE
    /\ UNCHANGED <<mounted, language, updates, contactVars, diagVars>>

\* The provider goes away (unmount or page unload); queued updates and an
\* effect that has not run are lost. language and effectDue keep what the
\* provider last showed and whether it had been persisted.
Unmount ==
    /\ mounted
    /\ mounted' = FALSE
    /\ updates' = <<>>
    /\ UNCHANGED <<language, effectDue, stored, htmlLang, contactVars, diagVars>>

InitLang ==
    /\ ContactIdle({FullEnv})
    /\ DiagIdle
    /\ LangIdle(StoredValues)

NextLang == Mount \/ SetLanguage \/ ToggleLanguage \/ Render \/ Effect \/ Unmount

SpecLang == InitLang /\ [][NextLang]_vars

\* ------------------------------------------------------------- properties
Awaiting == {"awaitAdmin", "awaitAck"}
Runs == {fin} \cup {inv[r] : r \in Reqs}
SendFailed == Response(500, FALSE, "send_failed", NoTicket, -1)

\* C1: the first 3 checks of a key inside one window (from the check that
\* opened it up to and including its resetAt) are Allowed, every further
\* check in it is Denied with 0 < retryAfterMs <= 60000.
C1_WindowOfThree ==
    lastCheck.made =>
        LET n == win[lastCheck.key].n
        IN  /\ n <= RATE_LIMIT_MAX => lastCheck.ok
            /\ n > RATE_LIMIT_MAX =>
                  /\ ~lastCheck.ok
                  /\ 0 < lastCheck.retryAfterMs
                  /\ lastCheck.retryAfterMs <= RATE_LIMIT_WINDOW_MS

\* C2: whatever the interleaving of invocations suspended at their sends, at
\* most RATE_LIMIT_MAX checks of one key are Allowed in one window.
C2_AtMostMaxAllowed ==
    \A k \in DOMAIN win : win[k].allowed <= RATE_LIMIT_MAX

C2_Witness ==
    /\ lastCheck.made /\ ~lastCheck.ok
    /\ win[lastCheck.key].allowed = RATE_LIMIT_MAX
    /\ \E r \in Reqs : inv[r].pc \in Awaiting /\ inv[r].rl.key = lastCheck.key

\* C3: an invocation that has ended has responded exactly once, and one that
\* is still waiting for a send has not responded yet.
C3_ExactlyOneResponse ==
    /\ fin.pc = "done" => Len(fin.responses) = 1
    /\ \A r \in Reqs : inv[r].pc \in Awaiting => inv[r].responses = <<>>
    /\ \A r \in Reqs : inv[r].pc \in Awaiting \cup {"idle"}

C3_Witness ==
    /\ fin.pc = "done"
    /\ Len(fin.sends) = 2
    /\ fin.sends[2].result = "fail"
    /\ fin.responses = <<SendFailed>>

\* C4: a check of a key whose window has expired (now > resetAt) is Allowed
\* whatever the stored count, leaves the entry at count 1 with resetAt = now +
\* 60000 and is the first of a new window; no check is Denied before the
\* fourth of its window.
C4_ExpiredWindowResets ==
    /\ lastCheck.expired =>
          /\ lastCheck.ok
          /\ ipBucket[lastCheck.key] =
                [count |-> 1, resetAt |-> now + RATE_LIMIT_WINDOW_MS]
          /\ win[lastCheck.key].n = 1
    /\ (lastCheck.made /\ ~lastCheck.ok) => win[lastCheck.key].n > RATE_LIMIT_MAX

C4_Witness ==
    /\ lastCheck.expired
    /\ lastCheck.before = RATE_LIMIT_MAX
    /\ lastCheck.ok

\* C6: the acknowledgement send starts only after the admin send has
\* completed successfully; a failed admin send ends the invocation with
\* 500 send_failed and no second send.
C6_AckOnlyAfterAdminOk ==
    \A run \in Runs :
        /\ \A i \in 1..Len(run.sends) :
              run.sends[i].msg.kind = "ack" =>
                 /\ i = 2
                 /\ run.sends[1].msg.kind = "admin"
                 /\ run.sends[1].result = "ok"
        /\ (Len(run.sends) >= 1 /\ run.sends[1].result = "fail") =>
              /\ Len(run.sends) = 1
              /\ run.sends[1].msg.kind = "admin"
              /\ run.pc = "done"
              /\ run.responses = <<SendFailed>>

C6_Witness ==
    /\ fin.pc = "done"
    /\ Len(fin.sends) = 1
    /\ fin.sends[1].msg.kind = "admin"
    /\ fin.sends[1].result = "fail"

\* C7: an invocation whose admin send succeeded and whose acknowledgement
\* send failed responds 500 send_failed without a ticket; no invocation with a
\* failed send responds 200.
C7_AckFailureIsFailure ==
    \A run \in Runs :
        (\E i \in 1..Len(run.sends) : run.sends[i].result = "fail") =>
            /\ run.pc = "done"
            /\ run.responses = <<SendFailed>>
            /\ \A j \in 1..Len(run.responses) :
                  run.responses[j].status # 200 /\ run.responses[j].ticket = NoTicket

C7_Witness ==
    /\ fin.pc = "done"
    /\ Len(fin.sends) = 2
    /\ fin.sends[1].result = "ok"
    /\ fin.sends[2].msg.kind = "ack"
    /\ fin.sends[2].result = "fail"
    /\ fin.responses # <<>>

\* C9: a 200 response with a ticket is given only by an invocation that
\* passed method check, body parse, honeypot check, rate limiter, validation
\* and configuration check in this order, generated its ticket once and then
\* had the admin notification and the acknowledgement sent successfully, admin
\* first; the admin text, the acknowledgement and the response carry that
\* same ticket.
SuccessStages ==
    << "MethodChecked", "BodyParsed", "HoneypotChecked", "RateLimited",
       "Validated", "ConfigChecked", "TicketGenerated", "AdminNotified",
       "UserNotified" >>

TicketsIn(msg) ==
    { msg.text[i].ticket : i \in { j \in 1..Len(msg.text) : msg.text[j].ticket # NoTicket } }
    \cup (IF msg.subjectTicket # NoTicket THEN {msg.subjectTicket} ELSE {})

C9_TicketOnlyOnFullSuccess ==
    \A run \in Runs : \A i \in 1..Len(run.responses) :
        (run.responses[i].status = 200 /\ run.responses[i].ticket # NoTicket) =>
            /\ run.stages = SuccessStages
            /\ run.in.method = "POST"
            /\ run.rl.made /\ run.rl.ok
            /\ Len(run.tickets) = 1
            /\ Len(run.sends) = 2
            /\ run.sends[1].msg.kind = "admin" /\ run.sends[1].result = "ok"
            /\ run.sends[2].msg.kind = "ack" /\ run.sends[2].result = "ok"
            /\ run.sends[1].msg.text[1].ticket = run.tickets[1]
            /\ TicketsIn(run.sends[1].msg) = {run.tickets[1]}
            /\ TicketsIn(run.sends[2].msg) = {run.tickets[1]}
            /\ run.responses[i].ticket = run.tickets[1]

C9_Witness ==
    /\ fin.pc = "done"
    /\ fin.responses # <<>>
    /\ fin.responses[1].status = 200
    /\ fin.responses[1].ticket # NoTicket
    /\ \E r \in Reqs : inv[r].pc \in Awaiting /\ inv[r].sub.ticket # fin.responses[1].ticket

\* What a request is, read off its fields.
IsPost(req) == req.method = "POST"
BodyReadable(req) == req.body.kind # "badjson"
HoneypotFilled(req) ==
    req.body.kind \in {"object", "json"} /\ trim(req.body.obj.hp) # <<>>
FieldsOf(req) ==
    LET o == IF req.body.kind \in {"object", "json"} THEN req.body.obj ELSE EmptyObj
    IN  [name |-> trim(o.name), email |-> trim(o.email), message |-> trim(o.message),
         company |-> trim(o.company), website |-> trim(o.website), phone |-> trim(o.phone)]
Counted(run) ==
    /\ run.pc = "done"
    /\ IsPost(run.in) /\ BodyReadable(run.in) /\ ~HoneypotFilled(run.in)
    /\ run.rl.made /\ run.rl.ok

\* C5: a POST whose honeypot field is non-empty after trimming is answered
\* 200 {ok:true} without ticket, and the step that handles it sends nothing,
\* generates no ticket, makes no rate-limit check and leaves the rate-limit
\* table and every other invocation as they were.
C5_HoneypotNoEffect ==
    [][ (fin'.pc = "done" /\ IsPost(fin'.in) /\ HoneypotFilled(fin'.in)) =>
            /\ fin'.responses = <<Response(200, TRUE, "", NoTicket, -1)>>
            /\ fin'.sends = <<>>
            /\ fin'.tickets = <<>>
            /\ ~fin'.rl.made /\ ~lastCheck'.made
            /\ ipBucket' = ipBucket
            /\ inv' = inv ]_vars

C5_Witness ==
    /\ fin.pc = "done" /\ IsPost(fin.in) /\ HoneypotFilled(fin.in)
    /\ fin.responses # <<>> /\ fin.responses[1].status = 200
    /\ FieldsOf(fin.in).name = <<>>
    /\ ~isValidEmail(FieldsOf(fin.in).email)
    /\ clientIp(fin.in) \in DOMAIN ipBucket
    /\ ipBucket[clientIp(fin.in)].count >= RATE_LIMIT_MAX
    /\ now <= ipBucket[clientIp(fin.in)].resetAt

\* C8: with any of MAIL_HOST, MAIL_USER, MAIL_PASS, MAIL_TO absent, a valid,
\* non-honeypot, not rate-limited submission is answered 500
\* server_not_configured, and no invocation ever sends or generates a ticket.
EnvIncomplete ==
    \E v \in {"MAIL_HOST", "MAIL_USER", "MAIL_PASS", "MAIL_TO"} : env[v] = <<>>

C8_NotConfigured ==
    EnvIncomplete =>
        /\ \A run \in Runs : run.sends = <<>> /\ run.tickets = <<>>
        /\ \A r \in Reqs : inv[r].pc = "idle"
        /\ (Counted(fin) /\ validate(FieldsOf(fin.in)) = "") =>
              fin.responses =
                 <<Response(500, FALSE, "server_not_configured", NoTicket, -1)>>

C8_Witness ==
    /\ env.MAIL_TO = <<>>
    /\ Counted(fin) /\ validate(FieldsOf(fin.in)) = ""
    /\ fin.responses # <<>> /\ fin.responses[1].error = "server_not_configured"

\* C10: for a non-honeypot, not rate-limited POST the response is 400 with the
\* reason of the first violated rule in the order missing_fields,
\* invalid_email, field_too_long, message_too_long, and nothing is sent.
C10_FirstFailureWins ==
    Counted(fin) =>
        LET f == FieldsOf(fin.in)
            missing == f.name = <<>> \/ f.email = <<>> \/ f.message = <<>>
            badEmail == ~isValidEmail(f.email)
            tooLong == \/ Len(f.name) > MAX_NAME \/ Len(f.company) > MAX_COMPANY
                       \/ Len(f.website) > MAX_WEBSITE \/ Len(f.phone) > MAX_PHONE
            msgLong == Len(f.message) > MAX_MESSAGE
            Bad(reason) == /\ fin.responses = <<Response(400, FALSE, reason, NoTicket, -1)>>
                           /\ fin.sends = <<>>
                           /\ fin.tickets = <<>>
        IN  /\ missing => Bad("missing_fields")
            /\ (~missing /\ badEmail) => Bad("invalid_email")
            /\ (~missing /\ ~badEmail /\ tooLong) => Bad("field_too_long")
            /\ (~missing /\ ~badEmail /\ ~tooLong /\ msgLong) => Bad("message_too_long")
            /\ (~missing /\ ~badEmail /\ ~tooLong /\ ~msgLong) =>
                  \A i \in 1..Len(fin.responses) : fin.responses[i].status # 400

C10_Witness ==
    /\ Counted(fin)
    /\ FieldsOf(fin.in).name = <<>>
    /\ FieldsOf(fin.in).email = <<"e">>
    /\ Len(FieldsOf(fin.in).company) > MAX_COMPANY
    /\ Len(FieldsOf(fin.in).message) > MAX_MESSAGE
    /\ fin.responses = <<Response(400, FALSE, "missing_fields", NoTicket, -1)>>

\* C11: a rate-limit denial is answered 429 rate_limited with a Retry-After
\* header equal to retryAfterMs in seconds rounded up, an integer from 1 to
\* 60, and nothing is sent.
C11_RetryAfterHeader ==
    (fin.pc = "done" /\ fin.rl.made /\ ~fin.rl.ok) =>
        /\ Len(fin.responses) = 1
        /\ fin.responses[1].status = 429
        /\ fin.responses[1].error = "rate_limited"
        /\ fin.responses[1].ticket = NoTicket
        /\ LET h == fin.responses[1].retryAfter
           IN  /\ h * 1000 >= fin.rl.retryAfterMs
               /\ (h - 1) * 1000 < fin.rl.retryAfterMs
               /\ 1 <= h /\ h <= 60
        /\ fin.sends = <<>>
        /\ fin.tickets = <<>>

\* C12: with the other fields valid, the trimmed name, company, website and
\* phone pass up to 80, 120, 200 and 80 characters and give 400
\* field_too_long from one more; the trimmed message passes up to 5000
\* characters and gives 400 message_too_long from 5001.
C12_InclusiveBounds ==
    \A run \in Runs :
        LET f == FieldsOf(run.in)
            fieldsFit == /\ Len(f.name) <= 80 /\ Len(f.company) <= 120
                         /\ Len(f.website) <= 200 /\ Len(f.phone) <= 80
            Bad(reason) == /\ run.pc = "done"
                           /\ run.responses = <<Response(400, FALSE, reason, NoTicket, -1)>>
        IN  (/\ run.rl.made /\ run.rl.ok
             /\ f.name # <<>> /\ f.message # <<>> /\ isValidEmail(f.email)) =>
                /\ ~fieldsFit => Bad("field_too_long")
                /\ (fieldsFit /\ Len(f.message) >= 5001) => Bad("message_too_long")
                /\ (fieldsFit /\ Len(f.message) <= 5000) =>
                      /\ run.stages # <<>>
                      /\ "Validated" \in {run.stages[i] : i \in 1..Len(run.stages)}
                      /\ \A i \in 1..Len(run.responses) : run.responses[i].status # 400

C12_Witness ==
    /\ inv[1].pc = "awaitAdmin"
    /\ Len(inv[1].in.body.obj.message) > 5000
    /\ Len(inv[1].sub.message) = 5000


\* C13: no header-bound value (subject, to, replyTo) of a message handed to
\* the dispatcher contains a carriage return or a line feed: in the admin
\* subject every run of CR/LF inside the name has become one space, and the
\* email of a submission that reached the dispatcher has no whitespace.
NoBreak(s) == \A i \in 1..Len(s) : s[i] \notin {CR, LF}
C13_NoHeaderInjection ==
    \A run \in Runs : \A i \in 1..Len(run.sends) :
        LET m == run.sends[i].msg
        IN  /\ NoBreak(m.subject)
            /\ NoBreak(m.to)
            /\ NoBreak(m.replyTo)
            /\ \A k \in 1..Len(run.sub.email) : run.sub.email[k] \notin WS
            /\ (m.kind = "admin" /\ trim(run.in.body.obj.name) = BreakName) =>
                   m.subject = <<"[GEONIX web inquiry] ", "a", " ", "b", " ", "c", " (">>
                               \o run.sub.email \o <<")">>

C13_Witness ==
    /\ inv[1].pc = "awaitAck"
    /\ inv[1].in.body.obj.name = BreakName
    /\ inv[1].in.body.obj.email = GoodEmail \o <<CR, LF>>
    /\ Len(inv[1].sends) = 2
    /\ inv[1].sends[2].msg.to = GoodEmail


\* C14: a request whose method is not POST is answered 405
\* method_not_allowed, and the step that handles it passes no stage (the body
\* is not read, so an unparsable body does not matter), makes no rate-limit
\* check, generates no ticket, sends nothing and leaves the rate-limit table
\* and every other invocation as they were.
C14_WrongMethodNoEffect ==
    [][ (fin'.pc = "done" /\ ~IsPost(fin'.in)) =>
            /\ fin'.responses = <<Response(405, FALSE, "method_not_allowed", NoTicket, -1)>>
            /\ fin'.stages = <<>>
            /\ fin'.sends = <<>>
            /\ fin'.tickets = <<>>
            /\ ~fin'.rl.made /\ ~lastCheck'.made
            /\ ipBucket' = ipBucket
            /\ win' = win
            /\ inv' = inv ]_vars

C14_Witness ==
    /\ fin.pc = "done" /\ fin.in.method = "GET"
    /\ ~BodyReadable(fin.in)
    /\ fin.responses # <<>> /\ fin.responses[1].status = 405
    /\ clientIp(fin.in) \in DOMAIN ipBucket
    /\ ipBucket[clientIp(fin.in)].count = 2


\* C15: for a POST to the diagnostic endpoint the test message is sent at
\* most once and only after verify() succeeded with the configuration
\* complete; 200 {ok:true, messageId} is answered only when verify and the
\* send both succeeded; missing configuration, a failed verify and a failed
\* send are each answered 500 {ok:false}; nothing is sent after a failed
\* verify or with missing configuration.
DiagRuns == {diagFin} \cup {diagInv[r] : r \in Reqs}
C15_DiagnosticOrder ==
    \A run \in DiagRuns :
        run.method = "POST" =>
            /\ Len(run.sends) <= 1
            /\ run.sends # <<>> => (run.verify = "ok" /\ ~anyMissing(diagEnv))
            /\ (run.verify = "fail" \/ anyMissing(diagEnv)) => run.sends = <<>>
            /\ run.pc = "done" =>
                  /\ Len(run.responses) = 1
                  /\ LET resp == run.responses[1]
                         failed == \/ anyMissing(diagEnv)
                                   \/ run.verify = "fail"
                                   \/ (run.sends # <<>> /\ run.sends[1].result = "fail")
                     IN  /\ resp.status \in {200, 500}
                         /\ resp.status = 200 <=> resp.ok
                         /\ resp.status = 200 <=> ~failed
                         /\ resp.status = 200 =>
                               /\ run.verify = "ok"
                               /\ Len(run.sends) = 1
                               /\ run.sends[1].result = "ok"
                               /\ resp.messageId = run.sends[1].messageId
                               /\ resp.messageId \in MessageIds

C15_Witness ==
    /\ diagFin.pc = "done" /\ diagFin.method = "POST"
    /\ diagFin.responses[1].status = 200
    /\ diagFin.sends[1].to = diagEnv.MAIL_USER
    /\ \E r \in Reqs : diagInv[r].pc = "awaitSend"


\* C16 as stated: every POST that is not a honeypot submission is counted by
\* the rate limiter, whatever its outcome.
Active(run) == run.pc \in Awaiting \cup {"done"}
C16_EveryPostCounted ==
    \A run \in Runs :
        (Active(run) /\ IsPost(run.in) /\ ~HoneypotFilled(run.in)) => run.rl.made

\* C16, amended: the rate-limit check comes after the body is read and the
\* honeypot is tested and before validation and the configuration check.
\* Every POST whose body could be read and whose honeypot is empty is counted
\* whatever its outcome (400, 500 or success); a request answered 405, a POST
\* whose body cannot be parsed and a honeypot submission are never counted;
\* a counted request that is the fourth or later of its window is answered
\* 429 even if it is fully valid.
C16_ReadablePostCounted ==
    \A run \in Runs :
        Active(run) =>
            /\ run.stages = SubSeq(SuccessStages, 1, Len(run.stages))
            /\ run.rl.made <=>
                  (IsPost(run.in) /\ BodyReadable(run.in) /\ ~HoneypotFilled(run.in))
            /\ run.rl.made <=> Len(run.stages) >= 3
            /\ (run.pc = "done" /\ Len(run.responses) = 1
                /\ run.responses[1].status = 400) => (run.rl.made /\ run.rl.ok)
            /\ (run.pc = "done" /\ run.responses = <<Response(500, FALSE,
                    "server_not_configured", NoTicket, -1)>>) => (run.rl.made /\ run.rl.ok)
            /\ (run = fin /\ lastCheck.made
                /\ win[lastCheck.key].n > RATE_LIMIT_MAX) =>
                  /\ Len(run.responses) = 1
                  /\ run.responses[1].status = 429
                  /\ run.responses[1].error = "rate_limited"

C16_Witness ==
    /\ EnvIncomplete
    /\ fin.pc = "done" /\ fin.rl.made /\ lastCheck.made
    /\ validate(FieldsOf(fin.in)) = ""
    /\ win[fin.rl.key].n = RATE_LIMIT_MAX + 1
    /\ win[fin.rl.key].allowed = RATE_LIMIT_MAX
    /\ fin.responses[1].status = 429


\* C17: every entry of the rate-limit table has 1 <= count <= RATE_LIMIT_MAX;
\* a check that creates or resets an entry leaves count 1, an Allowed check
\* inside the window raises count by exactly 1, a Denied check leaves it as
\* it was.
C17_CountInRange ==
    /\ \A k \in DOMAIN ipBucket :
          1 <= ipBucket[k].count /\ ipBucket[k].count <= RATE_LIMIT_MAX
    /\ lastCheck.made =>
          LET c == ipBucket[lastCheck.key].count
          IN  /\ (lastCheck.before = 0 \/ lastCheck.expired) => (lastCheck.ok /\ c = 1)
              /\ (lastCheck.before > 0 /\ ~lastCheck.expired /\ lastCheck.ok) =>
                    c = lastCheck.before + 1
              /\ ~lastCheck.ok => c = lastCheck.before

C17_Witness ==
    /\ lastCheck.made /\ ~lastCheck.ok
    /\ win[lastCheck.key].n > RATE_LIMIT_MAX
    /\ ipBucket[lastCheck.key].count = RATE_LIMIT_MAX
    /\ \E k \in DOMAIN ipBucket : ipBucket[k].count = 1


\* C18: the window is fixed: a check of a key made while its window has not
\* expired (now <= resetAt) leaves the entry's resetAt as it was, and a Denied
\* check leaves the whole entry as it was and reports the time left to that
\* same resetAt.
C18_FixedWindow ==
    [][ lastCheck'.made =>
            LET k == lastCheck'.key
            IN  /\ (k \in DOMAIN ipBucket /\ now <= ipBucket[k].resetAt) =>
                      ipBucket'[k].resetAt = ipBucket[k].resetAt
                /\ ~lastCheck'.ok =>
                      /\ k \in DOMAIN ipBucket
                      /\ ipBucket'[k] = ipBucket[k]
                      /\ lastCheck'.retryAfterMs = ipBucket[k].resetAt - now ]_vars

C18_Witness ==
    /\ lastCheck.made /\ ~lastCheck.ok
    /\ now > win[lastCheck.key].start
    /\ now < ipBucket[lastCheck.key].resetAt
    /\ ipBucket[lastCheck.key].resetAt = win[lastCheck.key].start + RATE_LIMIT_WINDOW_MS


\* C19: a step never removes an entry from the rate-limit table; a step that
\* checks key A leaves the entry of every other key as it was, and a step
\* that makes no check leaves the table as it was; whether the check of A is
\* Allowed or Denied follows from A's own entry alone (Denied exactly when A
\* has an unexpired entry with count RATE_LIMIT_MAX).
C19_PerKeyIsolation ==
    [][ /\ DOMAIN ipBucket \subseteq DOMAIN ipBucket'
        /\ ~lastCheck'.made => ipBucket' = ipBucket
        /\ lastCheck'.made =>
              LET a == lastCheck'.key
              IN  /\ DOMAIN ipBucket' = DOMAIN ipBucket \cup {a}
                  /\ \A k \in DOMAIN ipBucket \ {a} : ipBucket'[k] = ipBucket[k]
                  /\ ~lastCheck'.ok <=>
                        /\ a \in DOMAIN ipBucket
                        /\ now <= ipBucket[a].resetAt
                        /\ ipBucket[a].count >= RATE_LIMIT_MAX ]_vars

C19_Witness ==
    /\ lastCheck.made /\ lastCheck.ok
    /\ win[lastCheck.key].n = 1
    /\ \E k \in DOMAIN ipBucket \ {lastCheck.key} :
          /\ ipBucket[k].count = RATE_LIMIT_MAX
          /\ win[k].n > RATE_LIMIT_MAX
          /\ now <= ipBucket[k].resetAt


\* C20: the language of a mounted provider is 'ko' or 'en' whatever was
\* queued by setLanguage and toggleLanguage; a render that applies one toggle
\* flips it, one that applies two toggles restores it, one whose last update
\* is setLanguage(l) shows l; once the effect has run the stored value and
\* the document language equal the language; a provider that mounts starts
\* with the stored value if it is 'ko' or 'en' and with 'ko' otherwise, so
\* with the language the previous provider had persisted.
C20_LanguageStore ==
    [][ /\ mounted' => language' \in Languages
        /\ (mounted' /\ ~effectDue') => (stored' = language' /\ htmlLang' = language')
        /\ (~mounted /\ mounted') =>
              /\ stored \in Languages => language' = stored
              /\ stored \notin Languages => language' = "ko"
              /\ (language # "" /\ ~effectDue) => language' = language
        /\ (mounted /\ mounted' /\ updates # <<>> /\ updates' = <<>>) =>
              /\ updates = <<ToggleUpdate>> =>
                    (language' # language /\ language' \in Languages)
              /\ updates = <<ToggleUpdate, ToggleUpdate>> => language' = language
              /\ updates[Len(updates)].kind = "set" =>
                    language' = updates[Len(updates)].lang ]_vars

C20_Witness ==
    /\ mounted /\ ~effectDue
    /\ updates = <<ToggleUpdate, ToggleUpdate>>
    /\ language = "en" /\ stored = "en" /\ htmlLang = "en"

====
